---- MODULE Spec2Model ----
(***************************************************************************)
(* Model of examples/genParabolaData.py: a straight-line script that       *)
(* samples y = a*x^2 + b*x + c on np.linspace(-3, 3, 301), draws one       *)
(* Gaussian sample per grid point with random.gauss, and writes the table  *)
(* with np.savetxt(..., fmt='%10.5f').                                     *)
(*                                                                         *)
(* Reals are exact decimal fixed-point numbers (TLC integers are 32 bit):  *)
(*   x              hundredths           (x = n / 10^2)                    *)
(*   a, b, c        tenths, thousandths, hundredths                        *)
(*   y              units of 10^-5                                         *)
(*   sig_y          units of 10^-7                                         *)
(*   randomized_y   ticks of 1/(2*10^7), z being a multiple of 1/2         *)
(*   X (the array)  cells [neg, int, frac]: sign, whole part, ticks        *)
(* IEEE-754 rounding of the double operations (about 10^-15 relative) is   *)
(* below every tolerance stated here and is not modelled.                  *)
(*                                                                         *)
(* Text is a sequence of one-character strings.                            *)
(***************************************************************************)
EXTENDS Integers, Sequences, FiniteSets, TLC

VARIABLES
    pc,            \* the statement the script is at
    bound,         \* the names bound so far
    x,             \* line 4
    a, b, c,       \* lines 5-7
    y,             \* line 9
    sig_y,         \* line 10
    randomized_y,  \* lines 12-15
    i,             \* the for loop's index (0-based, as in the source)
    rng,           \* the generator's uniform state
    gauss_next,    \* the generator's cached second Box-Muller value
    draws,         \* history: the standard normal value of each gauss call
    X,             \* savetxt's array argument, np.c_[x, randomized_y, sig_y]
    fs,            \* the file at the output path: absent or its write chunks
    fh,            \* number of open handles on the output file
    row,           \* rows savetxt has written
    exc,           \* the exception in flight
    ioFailed,      \* history: the operating system refused an open/write/flush
    calls,         \* history: number of np.savetxt calls
    fs0            \* history: the file at the output path before the run

vars == <<pc, bound, x, a, b, c, y, sig_y, randomized_y, i, rng, gauss_next,
          draws, X, fs, fh, row, exc, ioFailed, calls, fs0>>

---------------------------------------------------------------------------
(* Bounds of the model *)

\* seeds 0..MaxSeed of the (unseeded, hence arbitrary) generator
MaxSeed == 3
\* savetxt alone is run on arrays of 0..MaxRows rows
MaxRows == 2

---------------------------------------------------------------------------
(* Fixed-point scales *)

Den == 2 * 10000000           \* ticks per unit
TicksPer5 == Den \div 100000  \* ticks per 10^-5, the written precision
TicksPerHundredth == Den \div 100
TicksPerSig == Den \div 10000000

Abs(n) == IF n < 0 THEN -n ELSE n

---------------------------------------------------------------------------
(* Line 4: x = np.linspace(-3, 3, 301) *)

start == -3
stop == 3
num == 301

Linspace_NoEndpoint(lo, hi, n) ==
    [k \in 1..n |-> lo * 100 + ((k - 1) * ((hi - lo) * 100)) \div n]

\* numpy: div = num - 1; step = (stop - start) / div;
\* y = arange(0, num) * step + start; y[-1] = stop
Linspace(lo, hi, n) ==
    [k \in 1..n |->
        IF k = n /\ n > 1 THEN hi * 100
        ELSE lo * 100 + ((k - 1) * ((hi - lo) * 100)) \div (n - 1)]

---------------------------------------------------------------------------
(* Lines 5-7: a = 4.2, b = 0.666, c = -0.23 *)

a_tenths == 42
b_thousandths == 666
c_hundredths == -23

---------------------------------------------------------------------------
(* Line 9: y = a*x**2 + b*x + c, elementwise, in units of 10^-5 *)

Poly_UnscaledC(av, bv, cv, xs) ==
    [k \in 1..Len(xs) |-> av * xs[k] * xs[k] + bv * xs[k] + cv]

Poly(av, bv, cv, xs) ==
    [k \in 1..Len(xs) |-> av * xs[k] * xs[k] + bv * xs[k] + cv * 1000]

(* Line 10: sig_y = 1 + 0.05*np.abs(y), elementwise, in units of 10^-7 *)

SigY_NoAbs(ys) == [k \in 1..Len(ys) |-> 10000000 + 5 * ys[k]]

SigY(ys) == [k \in 1..Len(ys) |-> 10000000 + 5 * Abs(ys[k])]

---------------------------------------------------------------------------
(* Line 14: random.gauss(mu, sigma).  The Mersenne Twister is abstracted   *)
(* to a full-period generator on 0..15; Box-Muller's pair                  *)
(* (cos, sin)(2*pi*u1) * sqrt(-2*log(1-u2)) is tabulated in halves.        *)

RngModulus == 16
Random(s) == (5 * s + 3) % RngModulus

CosH == <<2, 1, 0, -1, -2, -1, 0, 1>>
SinH == <<0, 1, 2, 1, 0, -1, -2, -1>>
Rad == <<0, 1, 3, 8>>

\* z = self.gauss_next; self.gauss_next = None; if z is None: (two random()
\* calls, z = cos * g2rad, self.gauss_next = sin * g2rad)
GaussDraw(s, cached) ==
    IF cached # <<>>
    THEN [z |-> cached[1], rng |-> s, gauss_next |-> <<>>]
    ELSE LET u1 == Random(s)
             u2 == Random(u1)
             k == (u1 \div 2) + 1
             r == (u2 \div 4) + 1
         IN [z |-> CosH[k] * Rad[r], rng |-> u2,
             gauss_next |-> <<SinH[k] * Rad[r]>>]

\* return mu + z * sigma, in ticks (mu in 10^-5, z in halves, sigma in 10^-7)
GaussValue_FirstSigma(ys, sigs, k, z) ==
    ys[k] * TicksPer5 + z * sigs[1] * (TicksPerSig \div 2)

GaussValue(ys, sigs, k, z) ==
    ys[k] * TicksPer5 + z * sigs[k] * (TicksPerSig \div 2)

---------------------------------------------------------------------------
(* Line 17: np.c_[x, randomized_y, sig_y], a float64 array of rows *)

\* a float64 cell from a number of ticks
Cell(t) == [neg |-> t < 0, int |-> Abs(t) \div Den, frac |-> Abs(t) % Den]

C__Misaligned(xs, rys, sigs) ==
    [k \in 1..Len(xs) |->
        <<Cell(xs[k] * TicksPerHundredth), Cell(rys[Len(rys) + 1 - k]),
          Cell(sigs[k] * TicksPerSig)>>]

C_(xs, rys, sigs) ==
    [k \in 1..Len(xs) |->
        <<Cell(xs[k] * TicksPerHundredth), Cell(rys[k]),
          Cell(sigs[k] * TicksPerSig)>>]

---------------------------------------------------------------------------
(* Line 17: fmt='%10.5f' *)

DigitChar == <<"0", "1", "2", "3", "4", "5", "6", "7", "8", "9">>

RECURSIVE Digits(_)
Digits(n) ==
    IF n < 10 THEN <<DigitChar[n + 1]>>
    ELSE Digits(n \div 10) \o <<DigitChar[(n % 10) + 1]>>

\* n < 10^w written with exactly w digits
RECURSIVE ZeroFill(_, _)
ZeroFill(n, w) ==
    IF w = 0 THEN <<>>
    ELSE ZeroFill(n \div 10, w - 1) \o <<DigitChar[(n % 10) + 1]>>

Precision == 5
Width == 10

\* the cell rounded to 10^-5 (to nearest, ties to even): the count of 10^-5
\* in the fraction, carried into the whole part at 100000.  (The double
\* nearest an exact decimal tie lies on one side of it or the other, so the
\* formatted text of a tie goes up or down with the value; ties to even makes
\* both directions occur.)
Round5(v) ==
    LET q == v.frac \div TicksPer5
        r == v.frac % TicksPer5
        up == 2 * r > TicksPer5 \/ (2 * r = TicksPer5 /\ q % 2 = 1)
        q2 == IF up THEN q + 1 ELSE q
    IN IF q2 = 100000 THEN [int |-> v.int + 1, f5 |-> 0]
       ELSE [int |-> v.int, f5 |-> q2]

RECURSIVE Spaces(_)
Spaces(n) == IF n <= 0 THEN <<>> ELSE <<" ">> \o Spaces(n - 1)

LeftPad_Truncating(t, w) ==
    IF Len(t) >= w THEN SubSeq(t, 1, w) ELSE Spaces(w - Len(t)) \o t

LeftPad_LeftAligned(t, w) == t \o Spaces(w - Len(t))

\* a minimum field width: shorter text is right-aligned, longer text is kept
LeftPad(t, w) == Spaces(w - Len(t)) \o t

\* '%10.5f' % v
Fmt(v) ==
    LET r == Round5(v)
    IN LeftPad((IF v.neg THEN <<"-">> ELSE <<>>) \o Digits(r.int) \o <<".">>
               \o ZeroFill(r.f5, Precision), Width)

\* savetxt: format = delimiter.join([fmt] * ncol); v = format % tuple(row) + newline
FormatRow(r) == Fmt(r[1]) \o <<" ">> \o Fmt(r[2]) \o <<" ">> \o Fmt(r[3]) \o <<"\n">>

---------------------------------------------------------------------------
(* The script, statement by statement *)

Init ==
    /\ pc = "linspace"
    /\ bound = {}
    /\ x = <<>> /\ a = 0 /\ b = 0 /\ c = 0
    /\ y = <<>> /\ sig_y = <<>> /\ randomized_y = <<>>
    /\ i = 0
    /\ rng \in 0..MaxSeed
    /\ gauss_next = <<>>
    /\ draws = <<>>
    /\ X = <<>>
    /\ fs \in {<<"absent">>, <<"file", <<>>>>, <<"file", <<<<"o", "l", "d", "\n">>>>>>}
    /\ fs0 = fs
    /\ fh = 0
    /\ row = 0
    /\ exc = "none"
    /\ ioFailed = FALSE
    /\ calls = 0

\* line 4
LinspaceStmt ==
    /\ pc = "linspace"
    /\ x' = Linspace(start, stop, num)
    /\ bound' = bound \cup {"x"}
    /\ pc' = "params"
    /\ UNCHANGED <<fs0, a, b, c, y, sig_y, randomized_y, i, rng, gauss_next, draws,
                   X, fs, fh, row, exc, ioFailed, calls>>

\* lines 5-7
ParamsStmt ==
    /\ pc = "params"
    /\ a' = a_tenths /\ b' = b_thousandths /\ c' = c_hundredths
    /\ bound' = bound \cup {"a", "b", "c"}
    /\ pc' = "y"
    /\ UNCHANGED <<fs0, x, y, sig_y, randomized_y, i, rng, gauss_next, draws,
                   X, fs, fh, row, exc, ioFailed, calls>>

\* line 9
YStmt ==
    /\ pc = "y"
    /\ y' = Poly(a, b, c, x)
    /\ bound' = bound \cup {"y"}
    /\ pc' = "sig_y"
    /\ UNCHANGED <<fs0, x, a, b, c, sig_y, randomized_y, i, rng, gauss_next, draws,
                   X, fs, fh, row, exc, ioFailed, calls>>

\* line 10
SigYStmt ==
    /\ pc = "sig_y"
    /\ sig_y' = SigY(y)
    /\ bound' = bound \cup {"sig_y"}
    /\ pc' = "list"
    /\ UNCHANGED <<fs0, x, a, b, c, y, randomized_y, i, rng, gauss_next, draws,
                   X, fs, fh, row, exc, ioFailed, calls>>

\* line 12
ListStmt ==
    /\ pc = "list"
    /\ randomized_y' = <<>>
    /\ bound' = bound \cup {"randomized_y"}
    /\ i' = 0
    /\ pc' = "for"
    /\ UNCHANGED <<fs0, x, a, b, c, y, sig_y, rng, gauss_next, draws,
                   X, fs, fh, row, exc, ioFailed, calls>>

\* lines 13-14, one iteration
ForBody ==
    /\ pc = "for"
    /\ i < Len(y)
    /\ LET d == GaussDraw(rng, gauss_next)
       IN /\ randomized_y' = Append(randomized_y, GaussValue(y, sig_y, i + 1, d.z))
          /\ draws' = Append(draws, d.z)
          /\ rng' = d.rng
          /\ gauss_next' = d.gauss_next
    /\ i' = i + 1
    /\ UNCHANGED <<fs0, pc, bound, x, a, b, c, y, sig_y, X, fs, fh, row, exc,
                   ioFailed, calls>>

\* line 13, range exhausted
ForExit ==
    /\ pc = "for"
    /\ i >= Len(y)
    /\ pc' = "array"
    /\ UNCHANGED <<fs0, bound, x, a, b, c, y, sig_y, randomized_y, i, rng,
                   gauss_next, draws, X, fs, fh, row, exc, ioFailed, calls>>

ArrayStmt_Reversed ==
    /\ pc = "array"
    /\ randomized_y' = [k \in 1..Len(randomized_y) |->
                           randomized_y[Len(randomized_y) + 1 - k]]
    /\ pc' = "savetxt"
    /\ UNCHANGED <<fs0, bound, x, a, b, c, y, sig_y, i, rng, gauss_next, draws,
                   X, fs, fh, row, exc, ioFailed, calls>>

\* line 15: the list becomes a float64 array with the same values
ArrayStmt ==
    /\ pc = "array"
    /\ randomized_y' = [k \in 1..Len(randomized_y) |-> randomized_y[k]]
    /\ pc' = "savetxt"
    /\ UNCHANGED <<fs0, bound, x, a, b, c, y, sig_y, i, rng, gauss_next, draws,
                   X, fs, fh, row, exc, ioFailed, calls>>

\* line 17: the argument is built and np.savetxt is entered
SavetxtCall ==
    /\ pc = "savetxt"
    /\ X' = C_(x, randomized_y, sig_y)
    /\ calls' = calls + 1
    /\ pc' = "touch"
    /\ UNCHANGED <<fs0, bound, x, a, b, c, y, sig_y, randomized_y, i, rng,
                   gauss_next, draws, fs, fh, row, exc, ioFailed>>

---------------------------------------------------------------------------
(* np.savetxt(fname, X, fmt), fname a string:                              *)
(*     open(fname, 'wt').close()                                           *)
(*     fh = np.lib._datasource.open(fname, 'wt'); own_fh = True            *)
(*     try: for row in X: fh.write(format % tuple(row) + newline)          *)
(*     finally: if own_fh: fh.close()                                      *)
(* The operating system may refuse an open, a write or the closing flush.  *)

\* where control goes after the finally block: an exception in flight
\* propagates out of savetxt and, the script catching nothing, out of the run
AfterFinally_Swallow(e) == "done"

AfterFinally(e) == IF e = "none" THEN "done" ELSE "raised"

\* the handles left open by fh.close() in the finally block
Release_OnSuccessOnly(n, e) == IF e = "none" THEN n - 1 ELSE n

Release(n, e) == n - 1

Touch ==
    /\ pc = "touch"
    /\ fs' = <<"file", <<>>>>
    /\ pc' = "open"
    /\ UNCHANGED <<fs0, bound, x, a, b, c, y, sig_y, randomized_y, i, rng,
                   gauss_next, draws, X, fh, row, exc, ioFailed, calls>>

TouchFail ==
    /\ pc = "touch"
    /\ exc' = "OSError"
    /\ ioFailed' = TRUE
    /\ pc' = AfterFinally("OSError")
    /\ UNCHANGED <<fs0, bound, x, a, b, c, y, sig_y, randomized_y, i, rng,
                   gauss_next, draws, X, fs, fh, row, calls>>

Open ==
    /\ pc = "open"
    /\ fs' = <<"file", <<>>>>
    /\ fh' = fh + 1
    /\ row' = 0
    /\ pc' = "write"
    /\ UNCHANGED <<fs0, bound, x, a, b, c, y, sig_y, randomized_y, i, rng,
                   gauss_next, draws, X, exc, ioFailed, calls>>

OpenFail ==
    /\ pc = "open"
    /\ exc' = "OSError"
    /\ ioFailed' = TRUE
    /\ pc' = AfterFinally("OSError")
    /\ UNCHANGED <<fs0, bound, x, a, b, c, y, sig_y, randomized_y, i, rng,
                   gauss_next, draws, X, fs, fh, row, calls>>

WriteRow ==
    /\ pc = "write"
    /\ row < Len(X)
    /\ fs' = <<"file", Append(fs[2], FormatRow(X[row + 1]))>>
    /\ row' = row + 1
    /\ UNCHANGED <<fs0, pc, bound, x, a, b, c, y, sig_y, randomized_y, i, rng,
                   gauss_next, draws, X, fh, exc, ioFailed, calls>>

\* the write is refused, none or a part of the line having reached the file
WriteFail ==
    /\ pc = "write"
    /\ row < Len(X)
    /\ \E part \in {0, Width}:
          fs' = IF part = 0 THEN fs
                ELSE <<"file", Append(fs[2], SubSeq(FormatRow(X[row + 1]), 1, part))>>
    /\ exc' = "OSError"
    /\ ioFailed' = TRUE
    /\ pc' = "finally"
    /\ UNCHANGED <<fs0, bound, x, a, b, c, y, sig_y, randomized_y, i, rng,
                   gauss_next, draws, X, fh, row, calls>>

WriteEnd ==
    /\ pc = "write"
    /\ row >= Len(X)
    /\ pc' = "finally"
    /\ UNCHANGED <<fs0, bound, x, a, b, c, y, sig_y, randomized_y, i, rng,
                   gauss_next, draws, X, fs, fh, row, exc, ioFailed, calls>>

\* finally: fh.close()
Close ==
    /\ pc = "finally"
    /\ fh' = Release(fh, exc)
    /\ pc' = AfterFinally(exc)
    /\ UNCHANGED <<fs0, bound, x, a, b, c, y, sig_y, randomized_y, i, rng,
                   gauss_next, draws, X, fs, row, exc, ioFailed, calls>>

\* finally: fh.close(), whose flush is refused; the descriptor is closed all the same
CloseFail ==
    /\ pc = "finally"
    /\ exc = "none"
    /\ fh' = Release(fh, exc)
    /\ exc' = "OSError"
    /\ ioFailed' = TRUE
    /\ pc' = AfterFinally("OSError")
    /\ UNCHANGED <<fs0, bound, x, a, b, c, y, sig_y, randomized_y, i, rng,
                   gauss_next, draws, X, fs, row, calls>>

Next ==
    \/ LinspaceStmt
    \/ ParamsStmt
    \/ YStmt
    \/ SigYStmt
    \/ ListStmt
    \/ ForBody
    \/ ForExit
    \/ ArrayStmt
    \/ SavetxtCall
    \/ Touch
    \/ TouchFail
    \/ Open
    \/ OpenFail
    \/ WriteRow
    \/ WriteFail
    \/ WriteEnd
    \/ Close
    \/ CloseFail

Spec == Init /\ [][Next]_vars

---------------------------------------------------------------------------
(* np.savetxt on its own, as a function of its array argument: entered     *)
(* with any array of 0..MaxRows rows whose cells include negative values,  *)
(* exact decimal ties, carries into the whole part and values whose text   *)
(* is wider than the field.                                                *)

TestX == {[neg |-> TRUE, int |-> 3, frac |-> 0]}
TestY == [neg : BOOLEAN, int : {0, 999, 10000},
          frac : {0, 3 * (TicksPer5 \div 2), Den - 1}]
TestSig == {[neg |-> FALSE, int |-> 1, frac |-> 230000]}
TestRows == {<<cx, cy, cs>> : cx \in TestX, cy \in TestY, cs \in TestSig}

SaveInit ==
    /\ pc = "touch"
    /\ bound = {}
    /\ x = <<>> /\ a = 0 /\ b = 0 /\ c = 0
    /\ y = <<>> /\ sig_y = <<>> /\ randomized_y = <<>>
    /\ i = 0
    /\ rng = 0
    /\ gauss_next = <<>>
    /\ draws = <<>>
    /\ X \in UNION {[1..n -> TestRows] : n \in 0..MaxRows}
    /\ fs = <<"absent">>
    /\ fs0 = fs
    /\ fh = 0
    /\ row = 0
    /\ exc = "none"
    /\ ioFailed = FALSE
    /\ calls = 1

SaveNext ==
    \/ Touch
    \/ TouchFail
    \/ Open
    \/ OpenFail
    \/ WriteRow
    \/ WriteFail
    \/ WriteEnd
    \/ Close
    \/ CloseFail

SaveSpec == SaveInit /\ [][SaveNext]_vars

---------------------------------------------------------------------------
(* Reading the file back: whitespace-separated decimal fields *)

IsSpace(ch) == ch \in {" ", "\n"}
IsDigit(ch) == ch \in {"0", "1", "2", "3", "4", "5", "6", "7", "8", "9"}
DigitVal(ch) == CHOOSE d \in 0..9 : DigitChar[d + 1] = ch

\* the maximal runs of non-space characters, in order
RECURSIVE TokensFrom(_, _, _)
TokensFrom(l, k, cur) ==
    IF k > Len(l) THEN (IF cur = <<>> THEN <<>> ELSE <<cur>>)
    ELSE IF IsSpace(l[k])
         THEN (IF cur = <<>> THEN <<>> ELSE <<cur>>) \o TokensFrom(l, k + 1, <<>>)
         ELSE TokensFrom(l, k + 1, Append(cur, l[k]))

Tokens(l) == TokensFrom(l, 1, <<>>)

RECURSIVE NatOf(_)
NatOf(ds) ==
    IF ds = <<>> THEN 0
    ELSE 10 * NatOf(SubSeq(ds, 1, Len(ds) - 1)) + DigitVal(ds[Len(ds)])

RECURSIVE Pow10(_)
Pow10(n) == IF n = 0 THEN 1 ELSE 10 * Pow10(n - 1)

\* [-]digits.digits with at least one digit on each side of the point
IsDecimal(t) ==
    LET u == IF t # <<>> /\ t[1] = "-" THEN Tail(t) ELSE t
        dots == {k \in 1..Len(u) : u[k] = "."}
    IN /\ Cardinality(dots) = 1
       /\ \A k \in (1..Len(u)) \ dots : IsDigit(u[k])
       /\ \A k \in dots : 1 < k /\ k < Len(u)

\* the value of a decimal field of at most 7 fraction digits, as a cell
ParseFloat(t) ==
    LET u == IF t[1] = "-" THEN Tail(t) ELSE t
        dot == CHOOSE k \in 1..Len(u) : u[k] = "."
        fr == SubSeq(u, dot + 1, Len(u))
    IN [neg |-> t[1] = "-",
        int |-> NatOf(SubSeq(u, 1, dot - 1)),
        frac |-> NatOf(fr) * (Den \div Pow10(Len(fr)))]

\* |u - v|, in ticks, of two cells less than 2 apart (else Den)
Dist(u, v) ==
    IF u.neg = v.neg
    THEN (IF Abs(u.int - v.int) > 1 THEN Den
          ELSE Abs((u.int - v.int) * Den + u.frac - v.frac))
    ELSE (IF u.int + v.int > 1 THEN Den
          ELSE (u.int + v.int) * Den + u.frac + v.frac)


---------------------------------------------------------------------------
(* Properties *)

CellTicks(v) == (IF v.neg THEN -1 ELSE 1) * (v.int * Den + v.frac)

\* C1: for every grid index i in 0..300, x_i = -3.0 + i*0.02 (x[k] = -300 +
\* 2*(k-1) hundredths, k = i+1), so x_0 = -3.0 and x_300 = 3.0 are included,
\* the spacing is 6.0/300 everywhere, and x is strictly increasing.
GridUniform ==
    "x" \in bound =>
        /\ Len(x) = 301
        /\ \A k \in 1..301 : x[k] = -300 + (k - 1) * 2
        /\ x[1] = -300 /\ x[301] = 300
        /\ \A k \in 1..300 : x[k] < x[k + 1] /\ (x[k + 1] - x[k]) * 300 = 600

GridWitness == pc = "params" /\ "x" \in bound /\ Len(x) = 301

\* C2: the dataset handed to the writer has exactly 301 rows, row i being
\* (x_i, noisyY_i, sigma_i) of the same grid index i, in ascending x order.
RowsAligned ==
    calls >= 1 =>
        /\ Len(X) = 301
        /\ \A k \in 1..301 :
              /\ Len(X[k]) = 3
              /\ CellTicks(X[k][1]) = (-300 + (k - 1) * 2) * TicksPerHundredth
              /\ CellTicks(X[k][1]) = x[k] * TicksPerHundredth
              /\ CellTicks(X[k][2]) = randomized_y[k]
              /\ CellTicks(X[k][3]) = sig_y[k] * TicksPerSig
        /\ \A k \in 1..300 : CellTicks(X[k][1]) < CellTicks(X[k + 1][1])

RowsWitness ==
    /\ pc = "touch" /\ calls = 1 /\ Len(X) = 301
    /\ randomized_y[1] # randomized_y[301]

\* C3: for every grid index, sigma = 1.0 + 0.05*|4.2*x^2 + 0.666*x - 0.23|
\* (in units of 10^-7, x in hundredths) and sigma >= 1.0.
SigmaFormula ==
    "sig_y" \in bound =>
        /\ Len(sig_y) = Len(x)
        /\ \A k \in 1..Len(x) :
              /\ sig_y[k] = 10000000 + 5 * Abs(42 * x[k] * x[k] + 666 * x[k] - 23000)
              /\ sig_y[k] >= 10000000

SigmaWitness ==
    /\ "sig_y" \in bound /\ Len(sig_y) = 301
    /\ \E k \in 1..Len(y) : y[k] < 0 /\ sig_y[k] > 10000000

\* C4: at grid index 150, x = 0.0, y_ideal = -0.23 and sigma = 1.0115; at
\* grid index 0, x = -3.0, y_ideal = 35.572 and sigma = 2.7786.
EndToEndValues ==
    "sig_y" \in bound =>
        /\ x[151] = 0 /\ y[151] = -23000 /\ sig_y[151] = 10115000
        /\ x[1] = -300 /\ y[1] = 3557200 /\ sig_y[1] = 27786000

EndToEndWitness == pc = "list" /\ "sig_y" \in bound /\ Len(y) = 301


\* a text right-aligned in a field of minimum width w
RightAligned(t, w) ==
    IF Len(t) >= w THEN t
    ELSE [k \in 1..w |-> IF k <= w - Len(t) THEN " " ELSE t[k - (w - Len(t))]]

\* [-]digits.ddddd: five digits after the point, no superfluous leading zero
IsFixed5(t) ==
    /\ IsDecimal(t)
    /\ LET u == IF t[1] = "-" THEN Tail(t) ELSE t
       IN /\ u[Len(u) - 5] = "."
          /\ (u[1] = "0" => u[2] = ".")

\* the line of one row under the pattern '%10.5f %10.5f %10.5f'
LineOK(l, r) ==
    LET toks == Tokens(l)
    IN /\ Len(toks) = 3
       /\ l = RightAligned(toks[1], 10) \o <<" ">> \o RightAligned(toks[2], 10)
              \o <<" ">> \o RightAligned(toks[3], 10) \o <<"\n">>
       /\ \A j \in 1..3 :
             /\ IsFixed5(toks[j])
             /\ ParseFloat(toks[j]).neg = r[j].neg
             /\ 2 * Dist(ParseFloat(toks[j]), r[j]) <= TicksPer5

\* C5: after a successful run, whether or not a file existed at the path, the
\* file holds exactly one newline-terminated line per row, in row order, no
\* header and nothing after, 301 lines; each line is x, noisyY, sigmaY with 5
\* digits after the point, right-aligned in fields of minimum width 10
\* separated by one space.
FileFormat ==
    pc = "done" =>
        /\ fs[1] = "file"
        /\ Len(X) = 301
        /\ Len(fs[2]) = 301
        /\ \A k \in 1..301 : LineOK(fs[2][k], X[k])

FileFormatWitness ==
    /\ pc = "done"
    /\ fs0[1] = "file" /\ fs0[2] # <<>>
    /\ Len(fs[2]) = 301
    /\ \E k \in 1..301 : X[k][2].neg

\* C6: for every row, the three whitespace-separated columns of the written
\* line parse to values within 10^-5 of the row's in-memory (x, noisyY,
\* sigmaY), negative values and values wider than 10 characters included.
RoundTrip ==
    pc = "done" =>
        /\ Len(fs[2]) = Len(X)
        /\ \A k \in 1..Len(X) :
              LET toks == Tokens(fs[2][k])
              IN /\ Len(toks) = 3
                 /\ \A j \in 1..3 :
                       /\ IsDecimal(toks[j])
                       /\ Dist(ParseFloat(toks[j]), X[k][j]) <= TicksPer5

RoundTripWitness ==
    /\ pc = "done"
    /\ \E k \in 1..Len(X) :
          X[k][2].neg /\ Len(Tokens(fs[2][k])[2]) > Width
    /\ \E k \in 1..Len(X) :
          ~X[k][2].neg /\ Len(Tokens(fs[2][k])[2]) > Width /\ X[k][2].frac # 0

\* C7: when the output path cannot be created or written, the run ends with
\* the OSError (IOError) in flight at top level: it is not replaced, the run
\* never reaches the success state, and nothing more is written to the file.
IOErrorPropagates ==
    /\ [](ioFailed => (exc = "OSError" /\ pc \in {"finally", "raised"}))
    /\ [][ioFailed => (fs' = fs /\ exc' = exc /\ pc' = "raised")]_vars

IOErrorWitness ==
    /\ pc = "raised" /\ ioFailed /\ exc = "OSError"
    /\ row > 0 /\ row < Len(X)

\* C8: the output file handle is open only during the write and is released
\* on every exit path, success or failure, before the run ends.
HandleReleased ==
    /\ fh \in {0, 1}
    /\ (fh = 1 => pc \in {"write", "finally"})
    /\ (pc \in {"write", "finally"} => fh = 1)
    /\ (pc \in {"done", "raised"} => fh = 0)

HandleWitness ==
    /\ pc = "raised" /\ fh = 0
    /\ row > 0 /\ row < Len(X)
    /\ Len(fs[2]) = row + 1

\* C9: for every grid index, noisyY is mean + z * stddev for the mean y_ideal
\* and the standard deviation sigma of that same index and one standard normal
\* value z of the generator's stream, one gauss call per index.
OneDrawPerIndex ==
    "randomized_y" \in bound =>
        /\ Len(randomized_y) = Len(draws)
        /\ (pc = "for" => Len(randomized_y) = i)
        /\ (pc # "for" /\ pc # "list" => Len(randomized_y) = 301)
        /\ \A k \in 1..Len(randomized_y) :
              2 * (randomized_y[k] - y[k] * TicksPer5)
                  = draws[k] * sig_y[k] * TicksPerSig

OneDrawWitness ==
    /\ pc = "array" /\ Len(randomized_y) = 301
    /\ \E k \in 2..301 : draws[k] # 0 /\ sig_y[k] # sig_y[1]
    /\ \E k \in 1..300 : draws[k] # draws[k + 1]

\* C10: once created, the grid, the curve parameters, the ideal values, the
\* uncertainties, each noisy sample and the output rows are never changed by
\* a later step, and the run makes exactly one write call, as its last step.
NothingMutated ==
    /\ [][/\ ("x" \in bound => x' = x)
          /\ ("a" \in bound => a' = a /\ b' = b /\ c' = c)
          /\ ("y" \in bound => y' = y)
          /\ ("sig_y" \in bound => sig_y' = sig_y)
          /\ \A k \in 1..Len(randomized_y) :
                Len(randomized_y') >= k /\ randomized_y'[k] = randomized_y[k]
          /\ (calls >= 1 => X' = X /\ calls' = calls)
          /\ bound \subseteq bound'
          /\ (calls >= 1 =>
                pc' \in {"open", "write", "finally", "done", "raised"})]_vars
    /\ [](calls <= 1 /\ (pc = "done" => calls = 1))

NothingMutatedWitness ==
    /\ pc = "done" /\ calls = 1
    /\ Len(randomized_y) = 301 /\ randomized_y[1] # randomized_y[301]


====
